---- MODULE Spec2Model ----
(***************************************************************************)
(* A model of mybranch.cpp: the Image class (a [height][width][channel]    *)
(* matrix of int samples with the recorded width, height, maxVal and       *)
(* channels) and the seven transforms that build a new Image from one.     *)
(*                                                                         *)
(* Indices are the source's 0-based (y, x, channel); the nested vectors    *)
(* are sequences, so data[y][x][c] of the source is data[y+1][x+1][c+1].   *)
(* vector::operator[] does not check its index: an access outside a        *)
(* buffer is undefined behaviour, modelled as a choice between the process *)
(* ending there and the run going on with an arbitrary value read and the  *)
(* stray write not landing in the image.                                   *)
(***************************************************************************)
EXTENDS Integers, Sequences, FiniteSets

VARIABLES img, ret, out, ops, fault, crashed, nBuild

vars == <<img, ret, out, ops, fault, crashed, nBuild>>

(***************************** bounds **************************************)

\* Largest width and height of a constructed image or a file.
MaxDim == 3
\* Most constructions, setChannels, loadPPM calls and pixel writes in a run.
MaxBuild == 2
\* Most transforms chained in a run.
MaxChain == 2

(*************************** small helpers *********************************)

Min(a, b) == IF a < b THEN a ELSE b
Max(a, b) == IF a > b THEN a ELSE b

\* The int of the build: 32 bits.
INT_MAX == 2147483647

(***************************** class Image *********************************)

\* vector<int>(channels, 0), vector<vector<int>>(width, ...)
Pixel(ch) == [c \in 1..ch |-> 0]
Row(w, ch) == [x \in 1..w |-> Pixel(ch)]

\* Image(): no buffer, 0 x 0, three channels.
ImageDefault ==
  [width |-> 0, height |-> 0, maxVal |-> 255, channels |-> 3, data |-> <<>>]

\* Image(int w, int h, int ch = 3): height rows of width pixels of ch zeros.
Image(w, h, ch) ==
  [width |-> w, height |-> h, maxVal |-> 255, channels |-> ch,
   data |-> [y \in 1..h |-> Row(w, ch)]]

\* vector::resize(n, value): keeps the first n elements as they are, appends
\* copies of value when n is larger.
Resize(s, n, value) ==
  IF n <= Len(s) THEN SubSeq(s, 1, n)
  ELSE s \o [i \in 1..(n - Len(s)) |-> value]

\* Whether data[y][x][c] exists in the buffer as it is.
InBuf(g, y, x, c) ==
  /\ y >= 0 /\ y < Len(g.data)
  /\ x >= 0 /\ x < Len(g.data[y + 1])
  /\ c >= 0 /\ c < Len(g.data[y + 1][x + 1])

\* operator()(y, x, channel) const: the sample, or whatever the memory holds
\* there (garb) when the index is outside the buffer.
Load(g, y, x, c, garb) ==
  IF InBuf(g, y, x, c) THEN g.data[y + 1][x + 1][c + 1] ELSE garb

\* operator()(y, x, channel) = v: the raw value is stored, nothing is clamped;
\* a write outside the buffer does not land in the image.
Store(g, y, x, c, v) ==
  IF InBuf(g, y, x, c) THEN [g EXCEPT !.data[y + 1][x + 1][c + 1] = v] ELSE g

\* The undefined behaviour of an access: "index" when it is outside the
\* buffer.  Of two, the first one met is the one recorded.
Access(g, y, x, c) == IF InBuf(g, y, x, c) THEN "none" ELSE "index"
First(f1, f2) == IF f1 # "none" THEN f1 ELSE f2

\* A loop nest's writes.  steps lists the iterations in their order, each
\* [fault, at, val]: fault is the undefined behaviour of the iteration's reads
\* and arithmetic ("none", "index", "overflow"), at = <<y, x, c>> is the
\* sample written and val the value.  Every sample of the image ends with the
\* value of the last iteration that wrote it (or as it was); the fault of the
\* nest is that of the first iteration with one, the write included.
Stores(g, steps) ==
  LET s == steps \o <<>>
      N == Len(s)
      faultOf(k) == First(s[k].fault,
                          Access(g, s[k].at[1], s[k].at[2], s[k].at[3]))
      bad == {k \in 1..N : faultOf(k) # "none"}
      last(y, x, c) ==
        LET ks == {k \in 1..N : s[k].at = <<y, x, c>>}
        IN IF ks = {} THEN 0 ELSE CHOOSE k \in ks : \A j \in ks : j <= k
      data == [y \in 1..Len(g.data) |-> [x \in 1..Len(g.data[y]) |->
                 [c \in 1..Len(g.data[y][x]) |->
                    LET k == last(y - 1, x - 1, c - 1)
                    IN IF k = 0 THEN g.data[y][x][c] ELSE s[k].val]]]
  IN [image |-> [g EXCEPT !.data = data],
      fault |-> IF bad = {} THEN "none"
                ELSE faultOf(CHOOSE k \in bad : \A j \in bad : k <= j)]

\* setChannels(ch): every pixel of the recorded height x width is resized.
\* The pixels visited are those of the recorded dimensions; one outside the
\* buffer is an access out of range.
setChannels(g, ch) ==
  LET inside == \A y \in 0..(g.height - 1) : \A x \in 0..(g.width - 1) :
                   y < Len(g.data) /\ x < Len(g.data[y + 1])
      data == [y \in 1..Len(g.data) |-> [x \in 1..Len(g.data[y]) |->
                 IF y <= g.height /\ x <= g.width
                 THEN Resize(g.data[y][x], ch, 0)
                 ELSE g.data[y][x]]]
  IN [image |-> [g EXCEPT !.channels = ch, !.data = data],
      fault |-> IF inside THEN "none" ELSE "index"]

\* loadPPM(filename).  A file is [exists, format, width, height, maxVal,
\* samples]; samples holds width*height*3 integers.
loadPPM(g, file) ==
  IF ~file.exists THEN [image |-> g, fault |-> "none", ok |-> FALSE]
  ELSE IF file.format # "P3"
       THEN [image |-> g, fault |-> "none", ok |-> FALSE]
  ELSE LET width == file.width
           height == file.height
           channels == 3
           resized == [g EXCEPT !.width = width, !.height = height,
                                !.maxVal = file.maxVal, !.channels = channels,
                                !.data = Resize(g.data, height,
                                                Row(width, channels))]
           steps == [k \in 1..(height * width * channels) |->
                       LET y == (k - 1) \div (width * channels)
                           x == ((k - 1) \div channels) % width
                           c == (k - 1) % channels
                       IN [fault |-> "none", at |-> <<y, x, c>>,
                           val |-> file.samples[k]]]
           r == Stores(resized, steps)
       IN [image |-> r.image, fault |-> r.fault, ok |-> TRUE]

(******************* double arithmetic of convertToGrayscale ***************)

\* 0.299, 0.587 and 0.114 are doubles: the nearest 53-bit binary fractions,
\* all whole multiples of 2^-56.  A value of the computation is held exactly
\* as its count of 2^-56 units, in five base-65536 digits, lowest first (a
\* count takes up to 66 bits).
Base == 65536
C299 == <<1572, 38273, 35651, 76, 0>>
C587 == <<33552, 51904, 17825, 150, 0>>
C114 == <<30409, 40894, 12058, 29, 0>>

RECURSIVE Pow2(_)
Pow2(n) == IF n = 0 THEN 1 ELSE 2 * Pow2(n - 1)

RECURSIVE BitLen(_)
BitLen(n) == IF n = 0 THEN 0 ELSE 1 + BitLen(n \div 2)

\* The exact product of a digit string and a small integer.
RECURSIVE MulCarry(_, _, _, _)
MulCarry(a, k, i, carry) ==
  IF i > Len(a) THEN <<>>
  ELSE LET t == a[i] * k + carry
       IN <<t % Base>> \o MulCarry(a, k, i + 1, t \div Base)

\* The exact sum of two digit strings.
RECURSIVE AddCarry(_, _, _, _)
AddCarry(a, b, i, carry) ==
  IF i > Len(a) THEN <<>>
  ELSE LET t == a[i] + b[i] + carry
       IN <<t % Base>> \o AddCarry(a, b, i + 1, t \div Base)

\* Number of significant bits of a digit string.
RECURSIVE TopBits(_, _)
TopBits(a, i) ==
  IF i = 0 THEN 0
  ELSE IF a[i] # 0 THEN 16 * (i - 1) + BitLen(a[i])
  ELSE TopBits(a, i - 1)

\* What a double keeps of an exact value: 53 significant bits, the rest
\* rounded to nearest, ties to the even neighbour.
RoundDouble(a) ==
  LET len == TopBits(a, Len(a))
      s == len - 53
  IN IF s <= 0 THEN a
     ELSE LET unit == Pow2(s)
              low == a[1] % unit
              odd == (a[1] \div unit) % 2 = 1
              up == low * 2 > unit \/ (low * 2 = unit /\ odd)
              cut == [a EXCEPT ![1] = a[1] - low]
          IN IF up THEN AddCarry(cut, <<unit, 0, 0, 0, 0>>, 1, 0) ELSE cut

\* coefficient * v in double (v converts to double exactly).
DMul(coef, v) == RoundDouble(MulCarry(coef, v, 1, 0))
\* a + b in double.
DAdd(a, b) == RoundDouble(AddCarry(a, b, 1, 0))
\* A conversion that rounds to the nearest integer instead of truncating.
DToIntNearest(a) == (a[4] \div 256) + a[5] * 256 + (IF a[4] % 256 >= 128 THEN 1 ELSE 0)
\* static_cast<int>(d) of a non-negative double: the whole units, 2^56 each.
DToInt(a) == (a[4] \div 256) + a[5] * 256

\* static_cast<int>(0.299 * R + 0.587 * G + 0.114 * B), left to right, every
\* product and sum rounded to double.
GrayOf(R, G, B) ==
  DToInt(DAdd(DAdd(DMul(C299, R), DMul(C587, G)), DMul(C114, B)))

(****************************** transforms *********************************)

\* The iterations of a nest  for y < height, for x < width, for c < channels.
CellY(k, width, channels) == (k - 1) \div (width * channels)
CellX(k, width, channels) == ((k - 1) \div channels) % width
CellC(k, channels) == (k - 1) % channels

convertToGrayscale(input, garb) ==
  LET height == input.height
      width == input.width
      output == Image(width, height, 1)
      steps == [k \in 1..(height * width) |->
                  LET y == CellY(k, width, 1)
                      x == CellX(k, width, 1)
                      R == Load(input, y, x, 0, garb)
                      G == Load(input, y, x, 1, garb)
                      B == Load(input, y, x, 2, garb)
                  IN [fault |-> First(Access(input, y, x, 0),
                                   First(Access(input, y, x, 1),
                                         Access(input, y, x, 2))),
                      at |-> <<y, x, 0>>, val |-> GrayOf(R, G, B)]]
  IN Stores(output, steps)

flipHorizontal(input, garb) ==
  LET height == input.height
      width == input.width
      channels == input.channels
      output == Image(width, height, channels)
      steps == [k \in 1..(height * width * channels) |->
                  LET y == CellY(k, width, channels)
                      x == CellX(k, width, channels)
                      c == CellC(k, channels)
                  IN [fault |-> Access(input, y, x, c),
                      at |-> <<y, width - 1 - x, c>>,
                      val |-> Load(input, y, x, c, garb)]]
  IN Stores(output, steps)

flipVertical(input, garb) ==
  LET height == input.height
      width == input.width
      channels == input.channels
      output == Image(width, height, channels)
      steps == [k \in 1..(height * width * channels) |->
                  LET y == CellY(k, width, channels)
                      x == CellX(k, width, channels)
                      c == CellC(k, channels)
                  IN [fault |-> Access(input, y, x, c),
                      at |-> <<height - 1 - y, x, c>>,
                      val |-> Load(input, y, x, c, garb)]]
  IN Stores(output, steps)

\* int new_value = input(y, x, c) + value: a sum outside int is undefined;
\* where the run goes on, the sum has wrapped around 2^32.
IntAdd(a, b) ==
  IF b > 0 /\ a > INT_MAX - b THEN (a - INT_MAX - 1) + (b - INT_MAX - 1)
  ELSE IF b < 0 /\ a < (-INT_MAX - 1) - b THEN (a + INT_MAX + 1) + (b + INT_MAX + 1)
  ELSE a + b
IntAddOverflows(a, b) ==
  \/ b > 0 /\ a > INT_MAX - b
  \/ b < 0 /\ a < (-INT_MAX - 1) - b

adjustBrightness(input, value, garb) ==
  LET height == input.height
      width == input.width
      channels == input.channels
      output == Image(width, height, channels)
      steps == [k \in 1..(height * width * channels) |->
                  LET y == CellY(k, width, channels)
                      x == CellX(k, width, channels)
                      c == CellC(k, channels)
                      v == Load(input, y, x, c, garb)
                      new_value == IntAdd(v, value)
                  IN [fault |-> First(Access(input, y, x, c),
                                   IF IntAddOverflows(v, value)
                                   THEN "overflow" ELSE "none"),
                      at |-> <<y, x, c>>,
                      val |-> Max(0, Min(255, new_value))]]
  IN Stores(output, steps)

\* factor * (original - 128.0f) + 128.0f, clamped to [0, 255] and truncated on
\* the store to int.  The factor is given in halves (factor2 / 2) and the
\* value is held in halves too: with samples this small every product and sum
\* is a multiple of 0.5 below 2^24, which float holds exactly.
ContrastOf(original, factor2) ==
  LET adjusted2 == factor2 * (original - 128) + 256
  IN Max(0, Min(510, adjusted2)) \div 2

\* The outer loop runs x over the height and the inner loop y over the width,
\* and the pixel read and written is (y, x): row y, column x.
adjustContrast(input, factor2, garb) ==
  LET height == input.height
      width == input.width
      channels == input.channels
      output == Image(width, height, channels)
      steps == [k \in 1..(height * width * channels) |->
                  LET x == CellY(k, width, channels)
                      y == CellX(k, width, channels)
                      c == CellC(k, channels)
                  IN [fault |-> Access(input, y, x, c),
                      at |-> <<y, x, c>>,
                      val |-> ContrastOf(Load(input, y, x, c, garb), factor2)]]
  IN Stores(output, steps)

\* The body is a TODO: the output is returned as constructed.
applyBlur(input, garb) ==
  LET height == input.height
      width == input.width
      channels == input.channels
      output == Image(width, height, channels)
  IN [image |-> output, fault |-> "none"]

\* The body is a TODO: the output, with width and height swapped, is returned
\* as constructed.
rotate90(input, garb) ==
  LET height == input.height
      width == input.width
      channels == input.channels
      output == Image(height, width, channels)
  IN [image |-> output, fault |-> "none"]

(****************************** the inputs *********************************)

\* The pixels createTestImage writes, row by row.
TestPixels ==
  << <<255, 0, 0>>,   <<0, 255, 0>>,   <<0, 0, 255>>,   <<255, 255, 255>>,
     <<255, 255, 0>>, <<255, 0, 255>>, <<0, 255, 255>>, <<128, 128, 128>>,
     <<255, 128, 0>>, <<128, 255, 0>>, <<128, 0, 255>>, <<255, 128, 128>>,
     <<128, 255, 128>>, <<128, 128, 255>>, <<255, 255, 128>>, <<0, 0, 0>> >>

\* The k-th sample of a file that holds the test image's pixels in their
\* order, as many as its header asks for (starting over after the sixteenth).
TestSample(k) == TestPixels[(((k - 1) \div 3) % 16) + 1][((k - 1) % 3) + 1]

\* The k-th sample of a file of 10-bit samples.
DeepSample(k) == (300 + 241 * k) % 1024

Dims == 1..MaxDim
Channels == {1, 3}

\* The files loadPPM is given: one that cannot be opened, one of another
\* format, and well-formed P3 files of every size, holding the test image's
\* pixels (maxVal 255) or 10-bit samples (maxVal 1023).
File(ex, fmt, w, h, mv, content) ==
  [exists |-> ex, format |-> fmt, width |-> w, height |-> h, maxVal |-> mv,
   samples |-> [k \in 1..(w * h * 3) |->
                  IF content = "test" THEN TestSample(k) ELSE DeepSample(k)]]

GoodFiles ==
  {File(TRUE, "P3", w, h, 255, "test") : w \in Dims, h \in Dims}
    \cup {File(TRUE, "P3", w, h, 1023, "deep") : w \in Dims, h \in Dims}

Files ==
  GoodFiles \cup {File(FALSE, "P3", 1, 1, 255, "test"),
                  File(TRUE, "P6", 1, 1, 255, "test")}

\* Values a caller writes through operator().
Written == {1, 255}
\* adjustBrightness's value: none, main's 50, a darkening, the largest int.
Deltas == {0, 50, -300, INT_MAX}
\* adjustContrast's factor, in halves: 0.5, 1.0, main's 1.5.
Factors2 == {1, 2, 3}
\* What a read outside a buffer may return.
Garbage == {0, 77}

(**************************** the state machine ****************************)

\* img     the Image object the program builds (main's input)
\* ret     what the last loadPPM returned: "true", "false" ("none" before the
\*         first)
\* out     the Image the last transform returned
\* ops     the transforms applied so far, each [name, arg]: the first to img,
\*         every later one to the result of the one before
\* fault   the undefined behaviour the run has met: "none", "index" (an
\*         access outside a buffer), "overflow" (an int sum outside int)
\* crashed whether the process ended at that undefined behaviour
\* nBuild  operations on img so far
Init ==
  /\ img = ImageDefault
  /\ ret = "none"
  /\ out = ImageDefault
  /\ ops = <<>>
  /\ fault = "none"
  /\ crashed = FALSE
  /\ nBuild = 0

Building == fault = "none" /\ ops = <<>> /\ nBuild < MaxBuild

\* A member function of img has run with result r = [image, fault].  After
\* undefined behaviour the process has either ended (img is as it was) or
\* goes on with what the in-range writes left.
Built(r) ==
  /\ nBuild' = nBuild + 1
  /\ fault' = r.fault
  /\ IF r.fault = "none"
     THEN img' = r.image /\ crashed' = FALSE
     ELSE \/ img' = img /\ crashed' = TRUE
          \/ img' = r.image /\ crashed' = FALSE
  /\ UNCHANGED <<out, ops>>

\* Image img(w, h, ch)
NewImage ==
  /\ Building
  /\ nBuild = 0
  /\ \E w \in 0..MaxDim, h \in 0..MaxDim, ch \in Channels :
       Built([image |-> Image(w, h, ch), fault |-> "none"])
  /\ UNCHANGED ret

\* img.setChannels(ch)
SetChannels ==
  /\ Building
  /\ \E ch \in Channels : Built(setChannels(img, ch))
  /\ UNCHANGED ret

\* img.loadPPM(filename)
LoadPPM ==
  /\ Building
  /\ \E file \in Files :
       LET r == loadPPM(img, file)
       IN Built(r) /\ ret' = IF r.ok THEN "true" ELSE "false"

\* img(y, x, c) = v, the caller keeping the index inside the image
WritePixel ==
  /\ Building
  /\ \E y \in 0..(img.height - 1), x \in 0..(img.width - 1),
        c \in 0..(img.channels - 1), v \in Written :
       /\ InBuf(img, y, x, c)
       /\ Built([image |-> Store(img, y, x, c, v), fault |-> "none"])
  /\ UNCHANGED ret

Chaining == fault = "none" /\ Len(ops) < MaxChain

\* The Image the next transform is given.
Source == IF ops = <<>> THEN img ELSE out

\* A transform has run with result r = [image, fault].
Returned(name, arg, r) ==
  /\ ops' = Append(ops, [name |-> name, arg |-> arg])
  /\ fault' = r.fault
  /\ IF r.fault = "none"
     THEN out' = r.image /\ crashed' = FALSE
     ELSE \/ out' = out /\ crashed' = TRUE
          \/ out' = r.image /\ crashed' = FALSE
  /\ UNCHANGED <<img, ret, nBuild>>

ConvertToGrayscale ==
  /\ Chaining
  /\ \E garb \in Garbage :
       Returned("convertToGrayscale", 0, convertToGrayscale(Source, garb))

FlipHorizontal ==
  /\ Chaining
  /\ \E garb \in Garbage :
       Returned("flipHorizontal", 0, flipHorizontal(Source, garb))

FlipVertical ==
  /\ Chaining
  /\ \E garb \in Garbage :
       Returned("flipVertical", 0, flipVertical(Source, garb))

AdjustBrightness ==
  /\ Chaining
  /\ \E value \in Deltas, garb \in Garbage :
       Returned("adjustBrightness", value,
                adjustBrightness(Source, value, garb))

AdjustContrast ==
  /\ Chaining
  /\ \E factor2 \in Factors2, garb \in Garbage :
       Returned("adjustContrast", factor2,
                adjustContrast(Source, factor2, garb))

ApplyBlur ==
  /\ Chaining
  /\ \E garb \in Garbage : Returned("applyBlur", 0, applyBlur(Source, garb))

Rotate90 ==
  /\ Chaining
  /\ \E garb \in Garbage : Returned("rotate90", 0, rotate90(Source, garb))

Next ==
  \/ NewImage
  \/ SetChannels
  \/ LoadPPM
  \/ WritePixel
  \/ ConvertToGrayscale
  \/ FlipHorizontal
  \/ FlipVertical
  \/ AdjustBrightness
  \/ AdjustContrast
  \/ ApplyBlur
  \/ Rotate90

Spec == Init /\ [][Next]_vars

(* convertToGrayscale alone, on the inputs main gives it and on single      *)
(* pixels: img is an 8-bit P3 file loaded into a default Image, or a 1 x 1   *)
(* Image constructed and given its three samples through operator().        *)
GraySamples == {0, 1, 2, 127, 128, 255}

OnePixel(R, G, B) ==
  Store(Store(Store(Image(1, 1, 3), 0, 0, 0, R), 0, 0, 1, G), 0, 0, 2, B)

InitGray ==
  /\ \/ /\ img \in {loadPPM(ImageDefault, f).image :
                       f \in {g \in GoodFiles : g.maxVal = 255}}
        /\ ret = "true"
        /\ nBuild = 1
     \/ /\ img \in {OnePixel(R, G, B) : R \in GraySamples, G \in GraySamples,
                                         B \in GraySamples}
        /\ ret = "none"
        /\ nBuild = 4
  /\ out = ImageDefault
  /\ ops = <<>>
  /\ fault = "none"
  /\ crashed = FALSE

NextGray == ConvertToGrayscale

SpecGray == InitGray /\ [][NextGray]_vars

(******************************* properties ********************************)

\* The buffer has the recorded shape: height rows of width pixels of
\* channels samples.
ShapeOK(g) ==
  /\ Len(g.data) = g.height
  /\ \A y \in 1..Len(g.data) :
       /\ Len(g.data[y]) = g.width
       /\ \A x \in 1..Len(g.data[y]) : Len(g.data[y][x]) = g.channels

SamplesIn(g, lo, hi) ==
  \A y \in 1..Len(g.data) : \A x \in 1..Len(g.data[y]) :
    \A c \in 1..Len(g.data[y][x]) : g.data[y][x][c] >= lo /\ g.data[y][x][c] <= hi

\* A valid grid: at least 1 x 1, one or three channels, the buffer of the
\* recorded shape, every sample in [0, maxVal].
Valid(g) ==
  /\ g.width >= 1 /\ g.height >= 1 /\ g.channels \in {1, 3}
  /\ ShapeOK(g)
  /\ SamplesIn(g, 0, g.maxVal)

Degenerate(g) == g.width = 0 \/ g.height = 0

Op(name, arg) == [name |-> name, arg |-> arg]

\* Sample (row, col, c), 0-based, of a grid of the recorded shape.
At(g, row, col, c) == g.data[row + 1][col + 1][c + 1]

\* C1: on a valid grid of any size each of the seven transforms completes
\* with every read and write inside the grid accessed.
C1_TransformAccessesInRange ==
  (Valid(img) /\ Len(ops) = 1) => fault # "index"

\* C2: flipping a valid grid twice the same way gives back the grid: width,
\* height, channels, maxVal and every sample.
C2_FlipTwiceIsIdentity ==
  (/\ Valid(img)
   /\ ops \in {<<Op("flipHorizontal", 0), Op("flipHorizontal", 0)>>,
               <<Op("flipVertical", 0), Op("flipVertical", 0)>>})
    => (fault = "none" /\ out = img)

\* C3: rotate90 of a valid W x H grid is an H x W grid of the same channels
\* with output[col][H-1-row][c] = input[row][col][c].
C3_Rotate90MapsPixels ==
  (Valid(img) /\ ops = <<Op("rotate90", 0)>>)
    => /\ fault = "none"
       /\ out.width = img.height /\ out.height = img.width
       /\ out.channels = img.channels
       /\ ShapeOK(out)
       /\ \A row \in 0..(img.height - 1), col \in 0..(img.width - 1),
             c \in 0..(img.channels - 1) :
            At(out, col, img.height - 1 - row, c) = At(img, row, col, c)

\* The sum of the 3 x 3 neighbourhood of (row, col) in channel c.
Sum9(g, row, col, c) ==
  At(g, row - 1, col - 1, c) + At(g, row - 1, col, c) + At(g, row - 1, col + 1, c)
  + At(g, row, col - 1, c) + At(g, row, col, c) + At(g, row, col + 1, c)
  + At(g, row + 1, col - 1, c) + At(g, row + 1, col, c) + At(g, row + 1, col + 1, c)

\* C4: applyBlur of a valid grid has the same dimensions, every interior
\* sample the floor of the 3 x 3 neighbourhood's sum over 9, every border
\* sample 0.
C4_BlurAveragesInterior ==
  (Valid(img) /\ ops = <<Op("applyBlur", 0)>>)
    => /\ fault = "none"
       /\ out.width = img.width /\ out.height = img.height
       /\ out.channels = img.channels
       /\ ShapeOK(out)
       /\ \A row \in 0..(img.height - 1), col \in 0..(img.width - 1),
             c \in 0..(img.channels - 1) :
            IF /\ row >= 1 /\ row <= img.height - 2
               /\ col >= 1 /\ col <= img.width - 2
            THEN At(out, row, col, c) = Sum9(img, row, col, c) \div 9
            ELSE At(out, row, col, c) = 0

\* C5: adjustContrast with factor 1.0 reproduces a valid grid of samples in
\* [0, 255], whatever its width and height: same width, height, channels and
\* samples.
C5_ContrastOneIsIdentity ==
  (Valid(img) /\ SamplesIn(img, 0, 255) /\ ops = <<Op("adjustContrast", 2)>>)
    => /\ fault = "none"
       /\ out.width = img.width /\ out.height = img.height
       /\ out.channels = img.channels
       /\ out.data = img.data

\* C6: adjustBrightness with value 0 gives back a valid grid, whatever
\* maxValue it carries: width, height, channels, maxValue and every sample.
C6_BrightnessZeroIsIdentity ==
  (Valid(img) /\ ops = <<Op("adjustBrightness", 0)>>)
    => (fault = "none" /\ out = img)

\* C7: after any transform or chain of transforms of a valid grid, every
\* sample of the grid returned lies in [0, its maxValue], and no
\* adjustBrightness sum has wrapped.
C7_SamplesWithinMaxValue ==
  (Valid(img) /\ Len(ops) >= 1 /\ ~crashed)
    => (SamplesIn(out, 0, out.maxVal) /\ fault # "overflow")

\* (299 R + 587 G + 114 B) / 1000, truncated.
Luma1000(R, G, B) == (299 * R + 587 * G + 114 * B) \div 1000

GrayCase ==
  /\ Valid(img) /\ img.channels = 3 /\ SamplesIn(img, 0, 255)
  /\ ops = <<Op("convertToGrayscale", 0)>>

\* C8 as stated: convertToGrayscale of a valid 3-channel grid of samples in
\* [0, 255] is a 1-channel grid of the same width and height whose sample is
\* (299 R + 587 G + 114 B) / 1000 truncated, in [0, 255], with red, green,
\* blue and white mapped to 76, 150, 29 and 255.
C8_GrayIsLuma1000 ==
  GrayCase
    => /\ fault = "none"
       /\ out.width = img.width /\ out.height = img.height
       /\ out.channels = 1 /\ ShapeOK(out)
       /\ \A row \in 0..(img.height - 1), col \in 0..(img.width - 1) :
            LET R == At(img, row, col, 0)
                G == At(img, row, col, 1)
                B == At(img, row, col, 2)
                v == At(out, row, col, 0)
            IN /\ v = Luma1000(R, G, B)
               /\ v >= 0 /\ v <= 255
               /\ (<<R, G, B>> = <<255, 0, 0>> => v = 76)
               /\ (<<R, G, B>> = <<0, 255, 0>> => v = 150)
               /\ (<<R, G, B>> = <<0, 0, 255>> => v = 29)
               /\ (<<R, G, B>> = <<255, 255, 255>> => v = 255)

\* C8 amended: convertToGrayscale of a valid 3-channel grid of samples in
\* [0, 255] is a 1-channel grid of the same width and height whose sample is
\* the truncated double sum 0.299 R + 0.587 G + 0.114 B, which is
\* (299 R + 587 G + 114 B) / 1000 truncated or one less, in [0, 255], with
\* red, green, blue and white mapped to 76, 149, 29 and 255.
C8_GrayIsTruncatedDoubleLuma ==
  GrayCase
    => /\ fault = "none" /\ ~crashed
       /\ out.width = img.width /\ out.height = img.height
       /\ out.channels = 1 /\ ShapeOK(out)
       /\ \A row \in 0..(img.height - 1), col \in 0..(img.width - 1) :
            LET R == At(img, row, col, 0)
                G == At(img, row, col, 1)
                B == At(img, row, col, 2)
                v == At(out, row, col, 0)
            IN /\ v \in {Luma1000(R, G, B) - 1, Luma1000(R, G, B)}
               /\ v >= 0 /\ v <= 255
               /\ (<<R, G, B>> = <<255, 0, 0>> => v = 76)
               /\ (<<R, G, B>> = <<0, 255, 0>> => v = 149)
               /\ (<<R, G, B>> = <<0, 0, 255>> => v = 29)
               /\ (<<R, G, B>> = <<255, 255, 255>> => v = 255)

\* A grayscale conversion of a grid that holds the green pixel and a pixel
\* whose double sum falls just short of the exact quotient.
C8_Witness ==
  /\ GrayCase
  /\ \E row \in 0..(img.height - 1), col \in 0..(img.width - 1) :
       /\ At(img, row, col, 0) = 0 /\ At(img, row, col, 1) = 255
       /\ At(img, row, col, 2) = 0
  /\ \E row \in 0..(img.height - 1), col \in 0..(img.width - 1) :
       At(out, row, col, 0) =
         Luma1000(At(img, row, col, 0), At(img, row, col, 1),
                  At(img, row, col, 2)) - 1

\* C9: no constructor and no transform returns a grid of width 0 or height 0
\* (each fails instead): once a transform has returned, neither the grid it
\* was given nor the grid it returned has width 0 or height 0.
C9_NoDegenerateGrid ==
  (Len(ops) >= 1 /\ ~crashed) => (~Degenerate(img) /\ ~Degenerate(out))

\* C10: after any sequence of constructions, setChannels, loadPPM calls and
\* pixel writes the buffer has the recorded shape.
C10_BufferMatchesDimensions ==
  fault = "none" => ShapeOK(img)

====
